---- MODULE Spec2Model ----
(***************************************************************************)
(* A model of src/src/processor.py: the ClassificationCache (keyword       *)
(* extraction, Jaccard similarity, lookup, insert, load with eviction,     *)
(* save) and NewsProcessor.deduplicate (hashed bag-of-words embedding,     *)
(* cosine similarity, chronological event scan).                           *)
(*                                                                         *)
(* Conventions.  A title is a tuple of characters; a character is a        *)
(* one-letter string, and a CJK ideograph is written by its code point     *)
(* ("u82af").  A float is an exact fraction [num, den] with den > 0.  A    *)
(* timestamp (datetime.now().isoformat(), compared as a string) is a       *)
(* natural number; 0 stands for the empty string that .get('used_at', '')  *)
(* yields for a record without used_at.                                    *)
(***************************************************************************)
EXTENDS Integers, Sequences, FiniteSets, TLC

(***************************************************************************)
(* Bounds of the model.                                                    *)
(***************************************************************************)
\* ClassificationCache(max_size=...): the value this instance was built with
max_size == 2
\* add_to_cache calls in one behaviour (each reads the clock once)
MaxAdds == 1
\* articles in the list deduplicate is called with
MaxArticles == 3
\* articles in the list process_all is called with
MaxTasks == 2
\* characters in a title _extract_keywords is called with on its own
MaxTitleLen == 3
\* add_to_cache calls in one behaviour of a cache filled from empty
MaxInserts == 11
\* articles in a list process_all is called with that is longer than the
\* semaphore admits at once
MaxQueued == 6

(***************************************************************************)
(* Program constants.                                                      *)
(***************************************************************************)
\* if len(keywords) < 2
MinKeywords == 2
\* if len(self.cache) % 10 == 0
SavePeriod == 10
\* hash(w) % 1000
HashMod == 1000
\* list(words)[:100], np.pad(vec, (0, max(0, 100 - len(vec))))
EmbedDim == 100
\* if len(article.summary_zh) > 1000
SummaryCutoff == 1000
\* asyncio.Semaphore(5)
SemaphoreLimit == 5

VARIABLES
    file,       \* content of cache_path on disk
    cache,      \* self.cache of the ClassificationCache
    clock,      \* the next value datetime.now() returns
    op,         \* the last call made on the cache and its arguments
    result      \* what that call returned, or that it raised

cacheVars == <<file, cache, clock, op, result>>

VARIABLES
    seed,              \* the hash seed of this process (PYTHONHASHSEED)
    dedup_threshold,   \* deduplicate's threshold argument
    batch,             \* the list deduplicate is called with, as the caller built it
    articles,          \* that list object now (sorted and marked in place)
    unique_articles,   \* the list deduplicate returned
    embeddings_cache,  \* self.embeddings_cache: text -> vector
    pc                 \* position of the deduplicate call

dedupVars == <<seed, dedup_threshold, batch, articles, unique_articles, embeddings_cache, pc>>

VARIABLES
    raw,        \* the list of RawArticle process_all is called with
    task,       \* per article: where its process_with_semaphore task is
    semaphore,  \* the value of asyncio.Semaphore(5)
    inserts,    \* the add_to_cache calls the tasks made, in the order made
    run         \* position of the process_all call

procVars == <<raw, task, semaphore, inserts, run>>

vars == <<cacheVars, dedupVars, procVars>>

(***************************************************************************)
(* Characters and titles.                                                  *)
(***************************************************************************)
UpperCase == <<"A","B","C","D","E","F","G","H","I","J","K","L","M",
               "N","O","P","Q","R","S","T","U","V","W","X","Y","Z">>
LowerCase == <<"a","b","c","d","e","f","g","h","i","j","k","l","m",
               "n","o","p","q","r","s","t","u","v","w","x","y","z">>

\* a sample of the range \u4e00-\u9fff: xin, pian, de, shi
CJKChars == {"u82af", "u7247", "u7684", "u662f"}

IsUpper(c) == \E i \in 1..26 : UpperCase[i] = c
IsLatin(c) == IsUpper(c) \/ \E i \in 1..26 : LowerCase[i] = c
IsCJK(c) == c \in CJKChars

\* str.lower() on one character
LowerChar(c) ==
    IF IsUpper(c) THEN LowerCase[CHOOSE i \in 1..26 : UpperCase[i] = c] ELSE c

\* Lower leaving the title as it is
NoLower(title) == title

\* title.lower()
Lower(title) == [i \in 1..Len(title) |-> LowerChar(title[i])]

\* the alternative of the pattern [a-zA-Z]+|[\u4e00-\u9fff]+ a character can start
CharClass(c) == IF IsLatin(c) THEN "latin" ELSE IF IsCJK(c) THEN "cjk" ELSE "other"

\* re.findall(r'[a-zA-Z]+|[\u4e00-\u9fff]+', s): the maximal runs of one class,
\* left to right; cur is the run being read, acc the runs already closed
RECURSIVE FindAllFrom(_, _, _, _)
FindAllFrom(s, i, cur, acc) ==
    IF i > Len(s)
    THEN IF cur = <<>> THEN acc ELSE Append(acc, cur)
    ELSE LET c == s[i]
             k == CharClass(c)
         IN  IF k = "other"
             THEN FindAllFrom(s, i + 1, <<>>, IF cur = <<>> THEN acc ELSE Append(acc, cur))
             ELSE IF cur # <<>> /\ CharClass(cur[1]) # k
                  THEN FindAllFrom(s, i + 1, <<c>>, Append(acc, cur))
                  ELSE FindAllFrom(s, i + 1, Append(cur, c), acc)

FindAll(s) == FindAllFrom(s, 1, <<>>, <<>>)

\* a token (tuple of characters) as one string
RECURSIVE Str(_)
Str(w) == IF w = <<>> THEN "" ELSE w[1] \o Str(Tail(w))

stop_words ==
    {"the", "a", "an", "is", "are", "was", "were", "in", "on", "at", "to", "for",
     "of", "and", "or", "with", "as", "by", "from", "its", "it", "this", "that",
     "u7684", "u662f", "u5728", "u548c", "u4e86", "u4e0e", "u5c06", "u4e3a",
     "u88ab", "u5bf9", "u7b49", "u4e2a"}

\* keywords = {w for w in words if len(w) > 1 and w not in stop_words}
KeepWord(w) == Len(w) > 1 /\ Str(w) \notin stop_words

_extract_keywords(title) ==
    LET words == FindAll(Lower(title))
    IN  {Str(words[i]) : i \in {j \in 1..Len(words) : KeepWord(words[j])}}

T_AIChip    == <<"A","I"," ","c","h","i","p">>
T_aiCHIP    == <<"a","i"," ","C","H","I","P","!">>
T_AIChipFab == <<"A","I"," ","c","h","i","p"," ","f","a","b">>
T_RobotArm  == <<"r","o","b","o","t"," ","a","r","m">>
T_CJK       == <<"u82af","u7247","u7684","A","I">>
T_theAI     == <<"t","h","e"," ","A","I">>
T_Short     == <<"a"," ","x",",","5","G">>

\* titles that yield at least two keywords, in the order initial files use them
LongTitles == <<T_AIChip, T_aiCHIP, T_AIChipFab, T_RobotArm, T_CJK>>

Titles == {LongTitles[i] : i \in 1..Len(LongTitles)} \cup {T_theAI, T_Short}

\* a title of one keyword made of a word the embedding model knows
T_AI == <<"A","I">>

\* titles of the articles process_all is given
RawTitles == {T_AIChip, T_AIChipFab, T_AI}

\* the k-th of a family of titles of two keywords each: "chip aa", "chip bb"
PeriodicTitle(k) == <<"c","h","i","p"," ",LowerCase[k],LowerCase[k]>>
PeriodicTitles == {PeriodicTitle(k) : k \in 1..(MaxInserts + 1)}

\* self._extract_keywords(title), tabulated over the titles of the model
KeywordsOf == [t \in Titles \cup RawTitles \cup PeriodicTitles |-> _extract_keywords(t)]

(***************************************************************************)
(* Fractions.                                                              *)
(***************************************************************************)
Frac(n, d) == [num |-> n, den |-> d]
FracLess(a, b) == a.num * b.den < b.num * a.den
FracLeq(a, b) == a.num * b.den <= b.num * a.den

\* thresholds a caller passes; 3/5 is the default 0.6
Thresholds == {Frac(0, 1), Frac(3, 5), Frac(2, 3)}

(***************************************************************************)
(* JSON values held in the file and in self.cache.                         *)
(***************************************************************************)
Categories == {"ai", "business"}
\* a confidence a caller passes
Confidences == {Frac(95, 100)}
\* a confidence that is not a number (a JSON string, null)
NotANumber == [num |-> 0, den |-> 0]

\* one item of a mapping: key and value; isrec says the value is a JSON object
Entry(t, cat, conf, kw, at) ==
    [title |-> t, isrec |-> TRUE, category |-> cat, confidence |-> conf,
     keywords |-> kw, used_at |-> at]
\* an item whose value is not an object (a number, a string, null)
BadEntry(t) ==
    [title |-> t, isrec |-> FALSE, category |-> "", confidence |-> Frac(0, 1),
     keywords |-> {}, used_at |-> 0]

Dict(items) == [kind |-> "dict", items |-> items, n |-> Len(items)]
EmptyDict == Dict(<<>>)
List(n) == [kind |-> "list", items |-> <<>>, n |-> n]
Scalar == [kind |-> "scalar", items |-> <<>>, n |-> 0]
Unparsable == [kind |-> "unparsable", items |-> <<>>, n |-> 0]
Missing == [kind |-> "missing", items |-> <<>>, n |-> 0]

(***************************************************************************)
(* ClassificationCache._load_cache.                                        *)
(***************************************************************************)
\* sorted(..., key=used_at, reverse=True) is stable: x goes after every
\* element whose key is at least its own
RECURSIVE InsertDesc(_, _)
InsertDesc(sorted, x) ==
    IF sorted = <<>> THEN <<x>>
    ELSE IF sorted[1].used_at >= x.used_at
         THEN <<sorted[1]>> \o InsertDesc(Tail(sorted), x)
         ELSE <<x>> \o sorted

RECURSIVE SortedDesc(_)
SortedDesc(items) ==
    IF items = <<>> THEN <<>>
    ELSE InsertDesc(SortedDesc(SubSeq(items, 1, Len(items) - 1)), items[Len(items)])

\* x[1].get('used_at', '') raises on a value that is not an object
AllRecords(items) == \A i \in 1..Len(items) : items[i].isrec

\* Evict without the sort: the first max_size items of the file
EvictUnsorted(items) == SubSeq(items, 1, max_size)

\* data = dict(sorted_items[:self.max_size])
Evict(items) == SubSeq(SortedDesc(items), 1, max_size)

\* the value self.cache gets from a file content f; every exception inside
\* the try gives {}
_load_cache(f) ==
    CASE f.kind = "missing"    -> EmptyDict
      [] f.kind = "unparsable" -> EmptyDict
      [] f.kind = "scalar"     -> EmptyDict
      [] f.kind = "list"       -> IF f.n > max_size THEN EmptyDict ELSE f
      [] f.kind = "dict"       ->
            IF Len(f.items) > max_size
            THEN IF AllRecords(f.items) THEN Dict(Evict(f.items)) ELSE EmptyDict
            ELSE f

(***************************************************************************)
(* ClassificationCache._calc_similarity and get_cached_category.           *)
(***************************************************************************)
\* _calc_similarity with len(kw1) + len(kw2) for the size of the union
SimilarityOverSum(kw1, kw2) ==
    IF kw1 = {} \/ kw2 = {} THEN Frac(0, 1)
    ELSE Frac(Cardinality(kw1 \cap kw2), Cardinality(kw1) + Cardinality(kw2))

_calc_similarity(kw1, kw2) ==
    IF kw1 = {} \/ kw2 = {} THEN Frac(0, 1)
    ELSE Frac(Cardinality(kw1 \cap kw2), Cardinality(kw1 \cup kw2))

\* LookupRejects letting a single keyword through
LookupRejectsEmptyOnly(keywords) == Cardinality(keywords) < 1

\* if len(keywords) < 2: return None
LookupRejects(keywords) == Cardinality(keywords) < MinKeywords

\* Better with >= for >: the last of several equal entries wins
BetterOrEqual(similarity, best_similarity, threshold) ==
    FracLeq(best_similarity, similarity) /\ FracLeq(threshold, similarity)

\* Better with the threshold as an upper limit
BetterUpToThreshold(similarity, best_similarity, threshold) ==
    FracLess(best_similarity, similarity) /\ FracLeq(similarity, threshold)

\* if similarity > best_similarity and similarity >= threshold
Better(similarity, best_similarity, threshold) ==
    FracLess(best_similarity, similarity) /\ FracLeq(threshold, similarity)

None == [kind |-> "none", category |-> "", confidence |-> Frac(0, 1)]
Raised == [kind |-> "raise", category |-> "", confidence |-> Frac(0, 1)]
Ok == [kind |-> "ok", category |-> "", confidence |-> Frac(0, 1)]
Hit(cat, conf) == [kind |-> "hit", category |-> cat, confidence |-> conf]

\* the loop over self.cache.items() from item i on; best is the index of
\* best_match (0: None), best_similarity its similarity
RECURSIVE ScanCache(_, _, _, _, _, _)
ScanCache(items, i, keywords, threshold, best, best_similarity) ==
    IF i > Len(items) THEN [best |-> best, similarity |-> best_similarity]
    ELSE LET similarity == _calc_similarity(keywords, items[i].keywords)
         IN  IF Better(similarity, best_similarity, threshold)
             THEN ScanCache(items, i + 1, keywords, threshold, i, similarity)
             ELSE ScanCache(items, i + 1, keywords, threshold, best, best_similarity)

\* Answer returning the stored confidence as it is
AnswerStored(items, found) ==
    IF found.best = 0 THEN None
    ELSE IF items[found.best].confidence = NotANumber THEN Raised
    ELSE Hit(items[found.best].category, items[found.best].confidence)

\* best_match['category'], best_match.get('confidence', 0.8) * best_similarity;
\* the product raises TypeError when the confidence is not a number
Answer(items, found) ==
    IF found.best = 0 THEN None
    ELSE IF items[found.best].confidence = NotANumber THEN Raised
    ELSE Hit(items[found.best].category,
             Frac(items[found.best].confidence.num * found.similarity.num,
                  items[found.best].confidence.den * found.similarity.den))

get_cached_category(c, title, threshold) ==
    LET keywords == KeywordsOf[title]
    IN  IF LookupRejects(keywords) THEN None
        ELSE IF c.kind # "dict" THEN Raised          \* no .items() on a list
        ELSE IF ~AllRecords(c.items) THEN Raised     \* no .get() on a number
        ELSE Answer(c.items, ScanCache(c.items, 1, keywords, threshold, 0, Frac(0, 1)))

\* the place in self.cache.items() of best_match when the loop ends (0: None)
best_match(c, title, threshold) ==
    ScanCache(c.items, 1, KeywordsOf[title], threshold, 0, Frac(0, 1)).best

(***************************************************************************)
(* ClassificationCache.add_to_cache, _save_cache.                          *)
(***************************************************************************)
\* AddRejects letting a single keyword through
AddRejectsEmptyOnly(keywords) == Cardinality(keywords) < 1

\* if len(keywords) < 2: return
AddRejects(keywords) == Cardinality(keywords) < MinKeywords

HasKey(items, t) == \E i \in 1..Len(items) : items[i].title = t
IndexOf(items, t) == CHOOSE i \in 1..Len(items) : items[i].title = t

\* Upsert dropping the first item of a full cache to make room
UpsertEvicting(items, e) ==
    IF HasKey(items, e.title)
    THEN [items EXCEPT ![IndexOf(items, e.title)] = e]
    ELSE IF Len(items) >= max_size THEN Append(Tail(items), e)
    ELSE Append(items, e)

\* Upsert keyed by the keyword set instead of the title string
UpsertByKeywords(items, e) ==
    IF \E i \in 1..Len(items) : items[i].keywords = e.keywords
    THEN [items EXCEPT ![CHOOSE i \in 1..Len(items) : items[i].keywords = e.keywords] = e]
    ELSE Append(items, e)

\* self.cache[title] = {...}: an existing key keeps its place in the dict
Upsert(items, e) ==
    IF HasKey(items, e.title)
    THEN [items EXCEPT ![IndexOf(items, e.title)] = e]
    ELSE Append(items, e)

\* json.dump(self.cache, f)
_save_cache(c) == c

\* if len(self.cache) % 10 == 0: self._save_cache()
SaveDue(items) == Len(items) % SavePeriod = 0

\* add_to_cache inserting into what the file holds instead of self.cache
AddToCacheOnDisk(c, f, title, category, confidence, now) ==
    LET keywords == KeywordsOf[title]
        d == _load_cache(f)
    IN  IF AddRejects(keywords) THEN [cache |-> c, file |-> f, result |-> Ok]
        ELSE IF d.kind # "dict"
        THEN [cache |-> c, file |-> f, result |-> Raised]
        ELSE LET items == Upsert(d.items, Entry(title, category, confidence, keywords, now))
             IN  [cache |-> Dict(items),
                  file |-> IF SaveDue(items) THEN _save_cache(Dict(items)) ELSE f,
                  result |-> Ok]

\* the cache, the file and the outcome after add_to_cache(title, category,
\* confidence) at time now
add_to_cache(c, f, title, category, confidence, now) ==
    LET keywords == KeywordsOf[title]
    IN  IF AddRejects(keywords) THEN [cache |-> c, file |-> f, result |-> Ok]
        ELSE IF c.kind # "dict"
        THEN [cache |-> c, file |-> f, result |-> Raised]   \* list[str] = ...
        ELSE LET items == Upsert(c.items, Entry(title, category, confidence, keywords, now))
             IN  [cache |-> Dict(items),
                  file |-> IF SaveDue(items) THEN _save_cache(Dict(items)) ELSE f,
                  result |-> Ok]

(***************************************************************************)
(* NewsProcessor.get_embedding.                                            *)
(*                                                                         *)
(* A vector is kept as the integers hash(w) % 1000 of its words, without   *)
(* the zeros np.pad appends and without the division by its norm: neither  *)
(* changes a cosine.                                                       *)
(***************************************************************************)
Whitespace == {" "}

\* str.split(): the maximal runs of characters that are not whitespace
RECURSIVE SplitFrom(_, _, _, _)
SplitFrom(s, i, cur, acc) ==
    IF i > Len(s)
    THEN IF cur = <<>> THEN acc ELSE Append(acc, cur)
    ELSE IF s[i] \in Whitespace
         THEN SplitFrom(s, i + 1, <<>>, IF cur = <<>> THEN acc ELSE Append(acc, cur))
         ELSE SplitFrom(s, i + 1, Append(cur, s[i]), acc)

Split(s) == SplitFrom(s, 1, <<>>, <<>>)

\* words = set(text.lower().split())
WordSet(text) ==
    LET ws == Split(Lower(text)) IN {Str(ws[i]) : i \in 1..Len(ws)}

D_AI   == <<"A","I">>
D_Chip == <<"c","h","i","p">>
D_Fab  == <<"F","A","B">>

\* (title_original, title_zh) of the articles of a batch
TitlePairs == {<<D_AI, D_Chip>>, <<D_Chip, D_Fab>>, <<D_AI, D_Fab>>, <<<<>>, <<>>>>}

\* text = f"{article.title_original} {article.title_zh}"
Text(title_original, title_zh) == title_original \o <<" ">> \o title_zh

\* set(text.lower().split()), tabulated over the texts of the model
WordSetOf ==
    [x \in {Text(p[1], p[2]) : p \in TitlePairs} \cup {Text(t, t) : t \in RawTitles} |->
        WordSet(x)]

\* the words the titles of the model are made of
DedupWords == {"ai", "chip", "fab"}

\* A hash seed fixes hash(w) for every word and, with it, the order in
\* which a set of words is iterated (rank: smaller comes first).
HashSeed(h_ai, h_chip, h_fab, r_ai, r_chip, r_fab) ==
    [hash |-> [w \in DedupWords |->
                 IF w = "ai" THEN h_ai ELSE IF w = "chip" THEN h_chip ELSE h_fab],
     rank |-> [w \in DedupWords |->
                 IF w = "ai" THEN r_ai ELSE IF w = "chip" THEN r_chip ELSE r_fab]]

Seeds ==
    {HashSeed(2, 1, 3, 1, 2, 3),
     HashSeed(5001, -998, 1, 1, 2, 3),
     HashSeed(1000, -3000, 1003, 3, 2, 1)}

NoSeed == HashSeed(0, 0, 0, 1, 2, 3)

\* list(words): the words in the iteration order of the set
RECURSIVE ListOf(_, _)
ListOf(sd, words) ==
    IF words = {} THEN <<>>
    ELSE LET w == CHOOSE x \in words : \A y \in words : sd.rank[x] <= sd.rank[y]
         IN  <<w>> \o ListOf(sd, words \ {w})

\* [hash(w) % 1000 for w in list(words)[:100]]
HashVector(sd, words) ==
    LET l == ListOf(sd, words)
        taken == SubSeq(l, 1, IF Len(l) < EmbedDim THEN Len(l) ELSE EmbedDim)
    IN  [i \in 1..Len(taken) |-> sd.hash[taken[i]] % HashMod]

\* the vectors of the texts of the model under each seed, tabulated
HashVectorOf ==
    [sd \in Seeds |-> [x \in DOMAIN WordSetOf |-> HashVector(sd, WordSetOf[x])]]

\* get_embedding(text) with the cache ec: the vector, and the cache after
get_embedding(sd, ec, text) ==
    IF text \in DOMAIN ec THEN [vec |-> ec[text], cache |-> ec]
    ELSE LET vec == HashVectorOf[sd][text]
         IN  [vec |-> vec,
              cache |-> [x \in DOMAIN ec \cup {text} |-> IF x = text THEN vec ELSE ec[x]]]

(***************************************************************************)
(* Cosine similarity against the threshold.                                *)
(***************************************************************************)
RECURSIVE DotFrom(_, _, _)
DotFrom(a, b, i) ==
    IF i > Len(a) \/ i > Len(b) THEN 0 ELSE a[i] * b[i] + DotFrom(a, b, i + 1)

Dot(a, b) == DotFrom(a, b, 1)

\* ExceedsThreshold with >= for >
ReachesThreshold(a, b, t) ==
    IF Dot(a, a) = 0 \/ Dot(b, b) = 0 THEN 0 >= t.num
    ELSE IF t.num < 0 THEN TRUE
    ELSE Dot(a, b) * Dot(a, b) * t.den * t.den >= t.num * t.num * Dot(a, a) * Dot(b, b)

\* cosine_similarity([a], [b])[0][0] > threshold; the cosine of a zero
\* vector is 0, and no component is negative
ExceedsThreshold(a, b, t) ==
    IF Dot(a, a) = 0 \/ Dot(b, b) = 0 THEN 0 > t.num
    ELSE IF t.num < 0 THEN TRUE
    ELSE Dot(a, b) * Dot(a, b) * t.den * t.den > t.num * t.num * Dot(a, a) * Dot(b, b)

(***************************************************************************)
(* NewsProcessor.deduplicate.                                              *)
(***************************************************************************)
NoId == "None"
Ids == <<"a1", "a2", "a3", "a4", "a5", "a6", "a7", "a8">>

\* a ProcessedArticle: summary_len is len(summary_zh)
Article(id, title_original, title_zh, published_at, summary_len) ==
    [id |-> id, title_original |-> title_original, title_zh |-> title_zh,
     published_at |-> published_at, summary_len |-> summary_len,
     is_primary |-> TRUE, related_event_id |-> NoId]

TextOf(article) == Text(article.title_original, article.title_zh)

\* SortByPublishedAt leaving the list as it came
Unsorted(list) == list

\* InsertAsc putting x before the elements of its own key
RECURSIVE InsertAscBeforeEqual(_, _)
InsertAscBeforeEqual(sorted, x) ==
    IF sorted = <<>> THEN <<x>>
    ELSE IF sorted[1].published_at < x.published_at
         THEN <<sorted[1]>> \o InsertAscBeforeEqual(Tail(sorted), x)
         ELSE <<x>> \o sorted

\* list.sort(key=published_at) is stable: x goes after every element whose
\* key is at most its own
RECURSIVE InsertAsc(_, _)
InsertAsc(sorted, x) ==
    IF sorted = <<>> THEN <<x>>
    ELSE IF sorted[1].published_at <= x.published_at
         THEN <<sorted[1]>> \o InsertAsc(Tail(sorted), x)
         ELSE <<x>> \o sorted

RECURSIVE SortByPublishedAt(_)
SortByPublishedAt(list) ==
    IF list = <<>> THEN <<>>
    ELSE InsertAsc(SortByPublishedAt(SubSeq(list, 1, Len(list) - 1)), list[Len(list)])

\* the loop that fills embeddings, from article i on
RECURSIVE EmbedAll(_, _, _, _, _)
EmbedAll(sd, ec, list, i, embeddings) ==
    IF i > Len(list) THEN [embeddings |-> embeddings, cache |-> ec]
    ELSE LET e == get_embedding(sd, ec, TextOf(list[i]))
         IN  EmbedAll(sd, e.cache, list, i + 1, Append(embeddings, e.vec))

\* the loop over seen_events from the k-th event on: the place of the first
\* event whose embedding exceeds the threshold (break), 0 when none does
RECURSIVE FirstSimilarFrom(_, _, _, _)
FirstSimilarFrom(seen_events, emb, t, k) ==
    IF k > Len(seen_events) THEN 0
    ELSE IF ExceedsThreshold(emb, seen_events[k].emb, t) THEN k
    ELSE FirstSimilarFrom(seen_events, emb, t, k + 1)

\* FirstSimilar taking the first event seen, similar or not
FirstSeen(seen_events, emb, t) == IF seen_events = <<>> THEN 0 ELSE 1

FirstSimilar(seen_events, emb, t) == FirstSimilarFrom(seen_events, emb, t, 1)

\* MarkDuplicate forgetting the event id
MarkDuplicateNoEvent(article, event_id) ==
    [article EXCEPT !.is_primary = FALSE]

\* article.is_primary = False; article.related_event_id = related_event_id
MarkDuplicate(article, event_id) ==
    [article EXCEPT !.is_primary = FALSE, !.related_event_id = event_id]

\* article.is_primary = True
MarkPrimary(article) == [article EXCEPT !.is_primary = TRUE]

\* KeepsDuplicate with >= for >
KeepsDuplicateFromCutoff(article) == article.summary_len >= SummaryCutoff

\* KeepsDuplicate keeping no duplicate
KeepsNoDuplicate(article) == FALSE

\* if len(article.summary_zh) > 1000
KeepsDuplicate(article) == article.summary_len > SummaryCutoff

\* ScanArticles making every article it keeps a seen event, a kept
\* duplicate too
RECURSIVE ScanArticlesAllSeen(_, _, _, _, _, _)
ScanArticlesAllSeen(list, embeddings, t, i, seen_events, unique) ==
    IF i > Len(list) THEN [articles |-> list, unique |-> unique]
    ELSE LET k == FirstSimilar(seen_events, embeddings[i], t)
         IN  IF k # 0
             THEN LET a == MarkDuplicate(list[i], seen_events[k].event_id)
                  IN  IF KeepsDuplicate(a)
                      THEN ScanArticlesAllSeen([list EXCEPT ![i] = a], embeddings, t, i + 1,
                               Append(seen_events, [emb |-> embeddings[i], event_id |-> a.id]),
                               Append(unique, a))
                      ELSE ScanArticlesAllSeen([list EXCEPT ![i] = a], embeddings, t, i + 1,
                               seen_events, unique)
             ELSE LET a == MarkPrimary(list[i])
                  IN  ScanArticlesAllSeen([list EXCEPT ![i] = a], embeddings, t, i + 1,
                          Append(seen_events, [emb |-> embeddings[i], event_id |-> a.id]),
                          Append(unique, a))

\* the loop over the sorted articles from article i on: the list with its
\* articles marked, and unique_articles
RECURSIVE ScanArticles(_, _, _, _, _, _)
ScanArticles(list, embeddings, t, i, seen_events, unique) ==
    IF i > Len(list) THEN [articles |-> list, unique |-> unique]
    ELSE LET k == FirstSimilar(seen_events, embeddings[i], t)
         IN  IF k # 0
             THEN LET a == MarkDuplicate(list[i], seen_events[k].event_id)
                  IN  ScanArticles([list EXCEPT ![i] = a], embeddings, t, i + 1, seen_events,
                                   IF KeepsDuplicate(a) THEN Append(unique, a) ELSE unique)
             ELSE LET a == MarkPrimary(list[i])
                  IN  ScanArticles([list EXCEPT ![i] = a], embeddings, t, i + 1,
                                   Append(seen_events, [emb |-> embeddings[i], event_id |-> a.id]),
                                   Append(unique, a))

\* deduplicate(list, t): the list object after the call, the returned
\* list, and the embeddings cache after the call
deduplicate(sd, ec, list, t) ==
    IF list = <<>> THEN [articles |-> list, unique |-> <<>>, cache |-> ec]
    ELSE LET sorted == SortByPublishedAt(list)
             e == EmbedAll(sd, ec, sorted, 1, <<>>)
             r == ScanArticles(sorted, e.embeddings, t, 1, <<>>, <<>>)
         IN  [articles |-> r.articles, unique |-> r.unique, cache |-> e.cache]

(***************************************************************************)
(* The cache as a state machine: a ClassificationCache is constructed      *)
(* over some file content, then looked up, inserted into, saved, and       *)
(* constructed again by the next run.                                      *)
(***************************************************************************)
\* category of the i-th record of an initial file
InitCategory(i) == IF i % 2 = 1 THEN "ai" ELSE "business"

\* an initial file holds up to one record more than the cache keeps
MaxFileLen == max_size + 1

\* used_at of the records of an initial file (0: a record without used_at)
PastTimes == {0, 1}

\* confidence of the i-th record of an initial file: 0.8, and 0.0 for the
\* third
InitConfidence(i) == IF i = 3 THEN Frac(0, 1) ELSE Frac(80, 100)

\* records an earlier run wrote
InitEntries ==
    {Entry(LongTitles[i], InitCategory(i), InitConfidence(i), KeywordsOf[LongTitles[i]], at) :
        i \in 1..MaxFileLen, at \in PastTimes}

\* place of a title in LongTitles
Rank(t) == CHOOSE i \in 1..Len(LongTitles) : LongTitles[i] = t

\* the keys of a mapping are distinct; an initial file lists them in the
\* order of LongTitles
Ordered(items) ==
    \A i, j \in 1..Len(items) : i < j => Rank(items[i].title) < Rank(items[j].title)

WellFormedFiles ==
    {Dict(items) : items \in
        UNION {{s \in [1..n -> InitEntries] : Ordered(s)} : n \in 0..MaxFileLen}}

\* parsable content that is no title-to-record mapping
MalformedFiles ==
    {Scalar, List(0), List(max_size + 1),
     Dict(<<BadEntry(T_AIChip)>>),
     Dict([i \in 1..(max_size + 1) |-> BadEntry(LongTitles[i])])}

InitFiles == {Missing, Unparsable} \cup MalformedFiles \cup WellFormedFiles

\* the first value datetime.now() returns in this run: later than every
\* used_at an earlier run wrote
StartClock == 1 + CHOOSE t \in PastTimes : \A u \in PastTimes : u <= t

Call(name, title, threshold, category, confidence) ==
    [name |-> name, title |-> title, threshold |-> threshold,
     category |-> category, confidence |-> confidence]
NoArgs(name) == Call(name, <<>>, Frac(0, 1), "", Frac(0, 1))

\* ClassificationCache.__init__: self.cache = self._load_cache()
InitCache ==
    /\ file \in InitFiles
    /\ cache = _load_cache(file)
    /\ clock = StartClock
    /\ op = NoArgs("load")
    /\ result = Ok
    /\ seed = NoSeed
    /\ dedup_threshold = Frac(0, 1)
    /\ batch = <<>>
    /\ articles = <<>>
    /\ unique_articles = <<>>
    /\ embeddings_cache = <<>>
    /\ pc = "idle"
    /\ raw = <<>>
    /\ task = <<>>
    /\ semaphore = SemaphoreLimit
    /\ inserts = <<>>
    /\ run = "none"

AddToCache(title, category, confidence) ==
    /\ clock < StartClock + MaxAdds
    /\ \E r \in {add_to_cache(cache, file, title, category, confidence, clock)} :
           /\ cache' = r.cache
           /\ file' = r.file
           /\ result' = r.result
    /\ clock' = clock + 1
    /\ op' = Call("add", title, Frac(0, 1), category, confidence)
    /\ UNCHANGED dedupVars
    /\ UNCHANGED procVars

\* GetCachedCategory stamping the matched entry with the time of the lookup
GetCachedCategoryTouching(title, threshold) ==
    /\ \E r \in {get_cached_category(cache, title, threshold)} :
           /\ result' = r
           /\ cache' = IF r.kind = "hit"
                       THEN [cache EXCEPT !.items[best_match(cache, title, threshold)].used_at = clock]
                       ELSE cache
    /\ op' = Call("get", title, threshold, "", Frac(0, 1))
    /\ UNCHANGED <<file, clock>>
    /\ UNCHANGED dedupVars
    /\ UNCHANGED procVars

GetCachedCategory(title, threshold) ==
    /\ result' = get_cached_category(cache, title, threshold)
    /\ op' = Call("get", title, threshold, "", Frac(0, 1))
    /\ UNCHANGED <<file, cache, clock>>
    /\ UNCHANGED dedupVars
    /\ UNCHANGED procVars

\* ClassificationCache.save
Save ==
    /\ file' = _save_cache(cache)
    /\ op' = NoArgs("save")
    /\ result' = Ok
    /\ UNCHANGED <<cache, clock>>
    /\ UNCHANGED dedupVars
    /\ UNCHANGED procVars

\* the next run constructs a new ClassificationCache over the same file
Load ==
    /\ cache' = _load_cache(file)
    /\ op' = NoArgs("load")
    /\ result' = Ok
    /\ UNCHANGED <<file, clock>>
    /\ UNCHANGED dedupVars
    /\ UNCHANGED procVars

NextCache ==
    \/ \E t \in Titles, c \in Categories, f \in Confidences : AddToCache(t, c, f)
    \/ \E t \in Titles, th \in Thresholds : GetCachedCategory(t, th)
    \/ Save
    \/ Load

SpecCache == InitCache /\ [][NextCache]_vars

(***************************************************************************)
(* Properties of the cache.                                                *)
(***************************************************************************)
\* the file holds a mapping from titles to records
WellFormed(f) == f.kind = "dict" /\ AllRecords(f.items)

InSeq(items, e) == \E i \in 1..Len(items) : items[i] = e

\* C1: in every state reached by add_to_cache calls on a loaded cache, the
\* cache holds at most max_size entries.
C1_CacheAtMostMaxSize ==
    cache.kind = "dict" => Len(cache.items) <= max_size

\* C2: after _load_cache has read a mapping of more than max_size records,
\* the cache holds exactly max_size of them and no dropped record has a
\* later used_at than a kept one (a record without used_at ranks oldest); a
\* mapping of at most max_size records is kept as it is.
C2_LoadKeepsMostRecent ==
    (op.name = "load" /\ WellFormed(file)) =>
        IF Len(file.items) > max_size
        THEN /\ cache.kind = "dict"
             /\ Len(cache.items) = max_size
             /\ \A i \in 1..Len(cache.items) : InSeq(file.items, cache.items[i])
             /\ \A i, j \in 1..Len(cache.items) :
                    i # j => cache.items[i].title # cache.items[j].title
             /\ \A i \in 1..Len(cache.items), j \in 1..Len(file.items) :
                    ~InSeq(cache.items, file.items[j]) =>
                        cache.items[i].used_at >= file.items[j].used_at
        ELSE cache = file

\* a load, after an insert and a save, that evicted a record
C2_Witness ==
    /\ op.name = "load"
    /\ clock > StartClock
    /\ WellFormed(file)
    /\ Len(file.items) > max_size
    /\ Len(cache.items) = max_size
    /\ \E j \in 1..(Len(file.items) - 1) : ~InSeq(cache.items, file.items[j])

\* what a lookup of keywords kw at threshold th must answer over items,
\* stated without the loop: the entries that qualify, and the first of those
\* whose similarity is the highest
SimTo(items, kw, i) == _calc_similarity(kw, items[i].keywords)
AtLeast(items, kw, th) ==
    {i \in 1..Len(items) : FracLeq(th, SimTo(items, kw, i))}
FirstHighest(items, kw, S) ==
    CHOOSE b \in S :
        /\ \A i \in S : FracLeq(SimTo(items, kw, i), SimTo(items, kw, b))
        /\ \A i \in S : i < b => FracLess(SimTo(items, kw, i), SimTo(items, kw, b))

LookupOfManyKeywords ==
    /\ op.name = "get"
    /\ Cardinality(KeywordsOf[op.title]) >= 2
    /\ WellFormed(cache)

\* C4, as claimed: a lookup of a title with at least 2 keywords matches
\* exactly when some entry has Jaccard similarity >= threshold, and answers
\* the category of the first entry with the highest similarity.
C4_MatchIffAtLeastThreshold ==
    LookupOfManyKeywords =>
        LET kw == KeywordsOf[op.title]
            S == AtLeast(cache.items, kw, op.threshold)
        IN  /\ (result.kind = "hit") = (S # {})
            /\ S # {} =>
                 result.category = cache.items[FirstHighest(cache.items, kw, S)].category

\* C4, amended: the match exists exactly when some entry has a Jaccard
\* similarity that is >= threshold and greater than 0; the answer is the
\* category of the first entry with the highest similarity.
C4_MatchIffPositiveAtLeastThreshold ==
    LookupOfManyKeywords =>
        LET kw == KeywordsOf[op.title]
            S == {i \in AtLeast(cache.items, kw, op.threshold) :
                    FracLess(Frac(0, 1), SimTo(cache.items, kw, i))}
        IN  /\ (result.kind = "hit") = (S # {})
            /\ S # {} =>
                 result.category = cache.items[FirstHighest(cache.items, kw, S)].category

\* a hit among two entries of different categories that tie for the highest
\* similarity, at a threshold the similarity only just reaches
C4_Witness ==
    /\ LookupOfManyKeywords
    /\ result.kind = "hit"
    /\ LET kw == KeywordsOf[op.title]
           S == AtLeast(cache.items, kw, op.threshold)
           b == FirstHighest(cache.items, kw, S)
       IN  /\ \E j \in S : /\ j > b
                           /\ SimTo(cache.items, kw, j) = SimTo(cache.items, kw, b)
                           /\ cache.items[j].category # cache.items[b].category
           /\ \E i \in 1..Len(cache.items) : i \notin S
           /\ FracLeq(SimTo(cache.items, kw, b), op.threshold)

\* C5: add_to_cache with a title of fewer than 2 keywords changes neither
\* the cache nor the file and does not raise; every entry an add_to_cache
\* creates or rewrites is keyed by the title, and stores the keywords
\* extracted from it, at least 2.
C5_AddShortTitleNoOp ==
    [][op'.name = "add" =>
        IF Cardinality(KeywordsOf[op'.title]) < 2
        THEN cache' = cache /\ file' = file /\ result'.kind = "ok"
        ELSE \A i \in 1..Len(cache'.items) :
                (i > Len(cache.items) \/ cache'.items[i] # cache.items[i]) =>
                    /\ cache'.items[i].title = op'.title
                    /\ cache'.items[i].keywords = KeywordsOf[op'.title]
                    /\ Cardinality(cache'.items[i].keywords) >= 2]_vars

\* an insert of a one-keyword title into a cache that holds entries
C5_Witness ==
    /\ op.name = "add"
    /\ Cardinality(KeywordsOf[op.title]) = 1
    /\ result.kind = "ok"
    /\ WellFormed(cache)
    /\ Len(cache.items) > 0

\* C6: get_cached_category with a title of fewer than 2 keywords returns
\* None, whatever the cache holds and whatever the threshold; it does not
\* raise.
C6_LookupShortTitleNone ==
    (op.name = "get" /\ Cardinality(KeywordsOf[op.title]) < 2) =>
        result = None

\* a lookup of a one-keyword title, at threshold 0, in a cache with an entry
\* that shares the keyword
C6_Witness ==
    /\ op.name = "get"
    /\ Cardinality(KeywordsOf[op.title]) = 1
    /\ op.threshold = Frac(0, 1)
    /\ WellFormed(cache)
    /\ \E i \in 1..Len(cache.items) :
            KeywordsOf[op.title] \subseteq cache.items[i].keywords
    /\ result = None

\* C7: loading always yields a usable mapping: a missing or malformed file
\* gives the empty cache, and no later lookup or insert raises.
C7_LoadYieldsUsableMapping ==
    /\ op.name = "load" =>
          /\ WellFormed(cache)
          /\ ~WellFormed(file) => cache = EmptyDict
    /\ result.kind # "raise"

\* C15: for a fixed cache and title, raising the threshold never adds a
\* match: a lookup that returns None at threshold t1 returns None at every
\* t2 >= t1, and when the lookups at t1 and t2 both match, they match the
\* same entry.
C15_ThresholdMonotone ==
    op.name = "get" =>
        \A t2 \in Thresholds :
            FracLeq(op.threshold, t2) =>
                /\ result = None => get_cached_category(cache, op.title, t2) = None
                /\ (result.kind = "hit" /\ get_cached_category(cache, op.title, t2).kind = "hit") =>
                      /\ best_match(cache, op.title, op.threshold) = best_match(cache, op.title, t2)
                      /\ get_cached_category(cache, op.title, t2) = result

\* a lookup that matches the later, more similar of two entries that share
\* keywords with the title, and matches nothing at a higher threshold
C15_Witness ==
    /\ op.name = "get"
    /\ result.kind = "hit"
    /\ WellFormed(cache)
    /\ \E i, j \in 1..Len(cache.items) :
            /\ i < j
            /\ best_match(cache, op.title, op.threshold) = j
            /\ FracLess(Frac(0, 1), SimTo(cache.items, KeywordsOf[op.title], i))
    /\ \E t2 \in Thresholds :
            /\ FracLess(op.threshold, t2)
            /\ get_cached_category(cache, op.title, t2) = None

\* the title keys of a cache
Keys(c) == {c.items[i].title : i \in 1..Len(c.items)}

\* C17: get_cached_category, add_to_cache and save never delete an entry of
\* a loaded cache: every key the cache held before the call it holds after
\* it; only a load (the eviction of _load_cache) drops keys.
C17_KeysNeverDeleted ==
    [][op'.name \in {"get", "add", "save"} => Keys(cache) \subseteq Keys(cache')]_vars

\* an insert of a new title into a cache that was already full
C17_Witness ==
    /\ op.name = "add"
    /\ result.kind = "ok"
    /\ WellFormed(cache)
    /\ Len(cache.items) = max_size + 1
    /\ cache.items[Len(cache.items)].title = op.title

\* the places of a title among the keys of a mapping
PlacesOf(items, t) == {i \in 1..Len(items) : items[i].title = t}

\* C21: add_to_cache of a title with at least 2 keywords into a cache that
\* is a mapping is an upsert keyed by the literal title string: when the
\* title is a key already, the number of entries stays the same and that
\* entry gets the new category, confidence, keywords and used_at; otherwise
\* the number of entries grows by exactly one, the new entry being the last;
\* every other entry is left as it was.
C21_AddIsUpsert ==
    [][(op'.name = "add" /\ Cardinality(KeywordsOf[op'.title]) >= 2 /\ cache.kind = "dict") =>
        LET e == Entry(op'.title, op'.category, op'.confidence, KeywordsOf[op'.title], clock)
            at == PlacesOf(cache.items, op'.title)
            n == Len(cache.items)
        IN  /\ cache'.kind = "dict"
            /\ \A i \in 1..n : cache'.items[i] = IF i \in at THEN e ELSE cache.items[i]
            /\ IF at # {}
               THEN Len(cache'.items) = n
               ELSE Len(cache'.items) = n + 1 /\ cache'.items[n + 1] = e]_vars

\* an insert that replaced the category and used_at of an entry a file held,
\* next to an entry of the same keywords under another spelling of the title
C21_Witness ==
    /\ op.name = "add"
    /\ WellFormed(cache)
    /\ Len(cache.items) >= 2
    /\ \E i, j \in 1..Len(cache.items) :
            /\ i # j
            /\ cache.items[i].title = op.title
            /\ cache.items[i].used_at = clock - 1
            /\ cache.items[i].category # InitCategory(Rank(op.title))
            /\ cache.items[j].keywords = cache.items[i].keywords
            /\ cache.items[j].used_at < clock - 1

FracEq(a, b) == a.num * b.den = b.num * a.den
InUnitInterval(x) == x # NotANumber /\ 0 <= x.num /\ x.num <= x.den

\* the entry a lookup that hit has matched: the first of the entries with
\* the highest similarity among those it shares a keyword with
Matched ==
    LET kw == KeywordsOf[op.title]
    IN  FirstHighest(cache.items, kw,
            {i \in AtLeast(cache.items, kw, op.threshold) :
                FracLess(Frac(0, 1), SimTo(cache.items, kw, i))})

LookupHit == op.name = "get" /\ result.kind = "hit" /\ WellFormed(cache)

\* the returned confidence is the confidence stored in entry m times the
\* similarity of the title to entry m
ReturnsProduct(m) ==
    LET stored == cache.items[m].confidence
        sim == SimTo(cache.items, KeywordsOf[op.title], m)
    IN  result.confidence.num * stored.den * sim.den
            = stored.num * sim.num * result.confidence.den

\* C22, as claimed: when get_cached_category returns a match, the returned
\* confidence is the matched entry's stored confidence times the matched
\* similarity; for a stored confidence in [0, 1] it never exceeds the stored
\* confidence and equals it only when the keyword sets are identical.
C22_EqualOnlyWhenIdentical ==
    LookupHit =>
        \E m \in {Matched} :
            /\ ReturnsProduct(m)
            /\ InUnitInterval(cache.items[m].confidence) =>
                  /\ FracLeq(result.confidence, cache.items[m].confidence)
                  /\ FracEq(result.confidence, cache.items[m].confidence) =>
                        cache.items[m].keywords = KeywordsOf[op.title]

\* C22, amended: the returned confidence is the stored confidence times the
\* similarity; for a stored confidence in [0, 1] it never exceeds the stored
\* confidence, and for one greater than 0 it equals the stored confidence
\* only when the keyword sets are identical (a stored 0 is returned as 0
\* whatever the similarity).
C22_ReturnedConfidenceIsProduct ==
    LookupHit =>
        \E m \in {Matched} :
            /\ ReturnsProduct(m)
            /\ InUnitInterval(cache.items[m].confidence) =>
                  /\ FracLeq(result.confidence, cache.items[m].confidence)
                  /\ (cache.items[m].confidence.num > 0
                        /\ FracEq(result.confidence, cache.items[m].confidence)) =>
                        cache.items[m].keywords = KeywordsOf[op.title]

\* a lookup that matched an entry inserted with confidence 0.95 whose
\* keywords are not those of the title, and returned less than 0.95
C22_Witness ==
    /\ LookupHit
    /\ cache.items[Matched].confidence = Frac(95, 100)
    /\ cache.items[Matched].keywords # KeywordsOf[op.title]
    /\ FracLess(result.confidence, cache.items[Matched].confidence)
    /\ FracLess(Frac(0, 1), result.confidence)

InitPeriodic ==
    /\ file = Missing
    /\ cache = _load_cache(file)
    /\ clock = StartClock
    /\ op = NoArgs("load")
    /\ result = Ok
    /\ seed = NoSeed
    /\ dedup_threshold = Frac(0, 1)
    /\ batch = <<>>
    /\ articles = <<>>
    /\ unique_articles = <<>>
    /\ embeddings_cache = <<>>
    /\ pc = "idle"
    /\ raw = <<>>
    /\ task = <<>>
    /\ semaphore = SemaphoreLimit
    /\ inserts = <<>>
    /\ run = "none"

InsertTitle(title, category, confidence) ==
    /\ clock < StartClock + MaxInserts
    /\ \E r \in {add_to_cache(cache, file, title, category, confidence, clock)} :
           /\ cache' = r.cache
           /\ file' = r.file
           /\ result' = r.result
    /\ clock' = clock + 1
    /\ op' = Call("add", title, Frac(0, 1), category, confidence)
    /\ UNCHANGED dedupVars
    /\ UNCHANGED procVars

NextPeriodic ==
    \E t \in {PeriodicTitle(1), PeriodicTitle(Len(cache.items) + 1)}, f \in Confidences :
        InsertTitle(t, "ai", f)

SpecPeriodic == InitPeriodic /\ [][NextPeriodic]_vars

\* C23: add_to_cache writes the cache file once per 10 new entries: an
\* insert writes the file exactly when it creates a new entry that brings
\* the number of entries to a multiple of 10, and an insert that creates no
\* new entry writes nothing.
C23_WriteOncePerTenNewEntries ==
    [][op'.name = "add" =>
        ((file' # file) <=>
            (Len(cache'.items) = Len(cache.items) + 1 /\ Len(cache'.items) % 10 = 0))]_vars

(***************************************************************************)
(* deduplicate as a state machine: a processor is given a batch and        *)
(* deduplicates it.                                                        *)
(***************************************************************************)
PublishTimes == {1, 2}
SummaryLens == {SummaryCutoff, SummaryCutoff + 1}

Choices == TitlePairs \X PublishTimes \X SummaryLens

\* the batches of n articles; the i-th article has the i-th id
BatchesOf(n) ==
    {[i \in 1..n |-> Article(Ids[i], f[i][1][1], f[i][1][2], f[i][2], f[i][3])] :
        f \in [1..n -> Choices]}

\* 17/20 is the default 0.85
DedupThresholds == {Frac(17, 20), Frac(4, 5)}

InitDedup ==
    /\ \E n \in 0..MaxArticles : batch \in BatchesOf(n)
    /\ seed \in Seeds
    /\ dedup_threshold \in DedupThresholds
    /\ articles = batch
    /\ unique_articles = <<>>
    /\ embeddings_cache = <<>>
    /\ pc = "ready"
    /\ file = Missing
    /\ cache = EmptyDict
    /\ clock = StartClock
    /\ op = NoArgs("load")
    /\ result = Ok
    /\ raw = <<>>
    /\ task = <<>>
    /\ semaphore = SemaphoreLimit
    /\ inserts = <<>>
    /\ run = "none"

Deduplicate ==
    /\ pc = "ready"
    /\ \E r \in {deduplicate(seed, embeddings_cache, articles, dedup_threshold)} :
           /\ articles' = r.articles
           /\ unique_articles' = r.unique
           /\ embeddings_cache' = r.cache
    /\ pc' = "done"
    /\ UNCHANGED <<seed, dedup_threshold, batch>>
    /\ UNCHANGED cacheVars
    /\ UNCHANGED procVars

NextDedup == Deduplicate

SpecDedup == InitDedup /\ [][NextDedup]_vars

(***************************************************************************)
(* Properties of deduplicate.                                              *)
(***************************************************************************)
Done == pc = "done"

Positions == 1..Len(articles)

\* the embedding of the i-th article of the sorted list
Emb(i) == HashVector(seed, WordSetOf[TextOf(articles[i])])

\* the squared cosine of two vectors (no component is negative, so squaring
\* keeps the order), and the squared threshold
Cosine2(a, b) ==
    IF Dot(a, a) = 0 \/ Dot(b, b) = 0 THEN Frac(0, 1)
    ELSE Frac(Dot(a, b) * Dot(a, b), Dot(a, a) * Dot(b, b))
Threshold2 == Frac(dedup_threshold.num * dedup_threshold.num,
                   dedup_threshold.den * dedup_threshold.den)

\* the event an article was put in
EventOf(a) == IF a.is_primary THEN a.id ELSE a.related_event_id

\* C3: after one run of deduplicate over articles with distinct ids, every
\* event has exactly one article with is_primary = True, and every article
\* with is_primary = False has a related_event_id that is not None.
C3_OnePrimaryPerEvent ==
    Done =>
        \A i \in Positions :
            /\ ~articles[i].is_primary => articles[i].related_event_id # NoId
            /\ Cardinality({j \in Positions :
                    /\ EventOf(articles[j]) = EventOf(articles[i])
                    /\ articles[j].is_primary}) = 1

\* a run that found two events, one of them with a duplicate
C3_Witness ==
    /\ Done
    /\ \E i, j, k \in Positions :
            /\ articles[i].is_primary
            /\ articles[k].is_primary
            /\ i # k
            /\ ~articles[j].is_primary
            /\ articles[j].related_event_id = articles[i].id

Elements(list) == {list[i] : i \in 1..Len(list)}

SimilarBefore(i) ==
    {j \in 1..(i - 1) :
        /\ articles[j].is_primary
        /\ FracLess(Threshold2, Cosine2(Emb(i), Emb(j)))}

\* C9: an article is marked duplicate exactly when its similarity to some
\* representative seen before it is strictly greater than the threshold, and
\* its related_event_id is then the id of the first such representative.
C9_DuplicateOfFirstAboveThreshold ==
    Done =>
        \A i \in Positions :
            /\ ~articles[i].is_primary = (SimilarBefore(i) # {})
            /\ SimilarBefore(i) # {} =>
                 \E j \in SimilarBefore(i) :
                    /\ \A k \in SimilarBefore(i) : j <= k
                    /\ articles[i].related_event_id = articles[j].id

\* a duplicate put in the first event above the threshold although a later
\* event is more similar to it
C9_Witness ==
    /\ Done
    /\ \E i \in Positions : \E j, k \in SimilarBefore(i) :
            /\ j < k
            /\ FracLess(Cosine2(Emb(i), Emb(j)), Cosine2(Emb(i), Emb(k)))
            /\ articles[i].related_event_id = articles[j].id

\* C10: whatever the order of the batch, every article marked duplicate was
\* published no earlier than the representative its related_event_id names.
C10_PrimaryIsEarliest ==
    Done =>
        \A i \in Positions :
            ~articles[i].is_primary =>
                \E j \in Positions :
                    /\ articles[j].id = articles[i].related_event_id
                    /\ articles[j].is_primary
                    /\ articles[j].published_at <= articles[i].published_at

\* a batch that lists a duplicate before its earlier-published representative
C10_Witness ==
    /\ Done
    /\ \E i, j \in 1..Len(batch) : \E a, r \in Elements(articles) :
            /\ i < j
            /\ a.id = batch[i].id
            /\ r.id = batch[j].id
            /\ ~a.is_primary
            /\ a.related_event_id = r.id
            /\ r.published_at < a.published_at

\* place of the article with this id in the batch as it was given
PlaceInBatch(id) == CHOOSE i \in 1..Len(batch) : batch[i].id = id

\* C11: the output is a subsequence of the input sorted ascending by
\* published_at: every returned article is one of the input, none is
\* returned twice, published_at never decreases along the output, and
\* articles of equal published_at keep the order they had in the input.
C11_OutputIsSortedSubsequence ==
    Done =>
        /\ \A p \in 1..Len(unique_articles) :
                \E i \in 1..Len(batch) :
                    /\ batch[i].id = unique_articles[p].id
                    /\ batch[i].title_original = unique_articles[p].title_original
                    /\ batch[i].title_zh = unique_articles[p].title_zh
                    /\ batch[i].published_at = unique_articles[p].published_at
                    /\ batch[i].summary_len = unique_articles[p].summary_len
        /\ \A p, q \in 1..Len(unique_articles) :
                p < q =>
                    /\ unique_articles[p].id # unique_articles[q].id
                    /\ unique_articles[p].published_at <= unique_articles[q].published_at
                    /\ unique_articles[p].published_at = unique_articles[q].published_at =>
                          PlaceInBatch(unique_articles[p].id) < PlaceInBatch(unique_articles[q].id)

\* a batch given out of order: the output lists an article before one that
\* preceded it in the batch, and two articles of equal published_at in the
\* order of the batch
C11_Witness ==
    /\ Done
    /\ \E p, q \in 1..Len(unique_articles) :
            /\ p < q
            /\ PlaceInBatch(unique_articles[q].id) < PlaceInBatch(unique_articles[p].id)
    /\ \E q, r \in 1..Len(unique_articles) :
            /\ q < r
            /\ unique_articles[q].published_at = unique_articles[r].published_at
            /\ PlaceInBatch(unique_articles[q].id) + 1 < PlaceInBatch(unique_articles[r].id)

\* every two articles of the batch have a similarity below the threshold
PairwiseBelow ==
    \A i, j \in Positions :
        i # j => FracLess(Cosine2(Emb(i), Emb(j)), Threshold2)

C27_RelatedEventIsPrimaryInOutput ==
    Done =>
        /\ \A p \in 1..Len(unique_articles) :
                ~unique_articles[p].is_primary =>
                    \E q \in 1..Len(unique_articles) :
                        /\ q # p
                        /\ unique_articles[q].id = unique_articles[p].related_event_id
                        /\ unique_articles[q].id # unique_articles[p].id
                        /\ unique_articles[q].is_primary
        /\ \A i, j \in Positions :
                (~articles[i].is_primary /\ articles[i].related_event_id = articles[j].id) =>
                    articles[j].is_primary

\* a returned duplicate with a long summary, and a later article that is
\* more similar to it than the threshold and yet primary, being below the
\* threshold to the duplicate's representative
C27_Witness ==
    /\ Done
    /\ \E i, j, k \in Positions :
            /\ i < j /\ j < k
            /\ articles[i].is_primary
            /\ ~articles[j].is_primary
            /\ articles[j].related_event_id = articles[i].id
            /\ articles[j] \in Elements(unique_articles)
            /\ FracLess(Threshold2, Cosine2(Emb(k), Emb(j)))
            /\ articles[k].is_primary
            /\ articles[k] \in Elements(unique_articles)

\* C28: at a threshold below 1, of two articles of the batch with the same
\* title_original and the same title_zh the later one in the sorted list is
\* never primary: it is marked a duplicate of the event of an article before
\* it, whatever the title text is, the empty title included.
C28_IdenticalTitlesOnePrimary ==
    (Done /\ FracLess(dedup_threshold, Frac(1, 1))) =>
        \A i, j \in Positions :
            (/\ i < j
             /\ articles[i].title_original = articles[j].title_original
             /\ articles[i].title_zh = articles[j].title_zh) =>
                /\ ~articles[j].is_primary
                /\ \E k \in 1..(j - 1) :
                        /\ articles[k].is_primary
                        /\ articles[j].related_event_id = articles[k].id

(***************************************************************************)
(* deduplicate called a second time, by the same processor and with the    *)
(* same threshold, on the list the first call returned.                    *)
(***************************************************************************)
DeduplicateAgain ==
    /\ pc = "done"
    /\ \E r \in {deduplicate(seed, embeddings_cache, unique_articles, dedup_threshold)} :
           /\ articles' = r.articles
           /\ unique_articles' = r.unique
           /\ embeddings_cache' = r.cache
    /\ batch' = unique_articles
    /\ pc' = "again"
    /\ UNCHANGED <<seed, dedup_threshold>>
    /\ UNCHANGED cacheVars
    /\ UNCHANGED procVars

NextAgain == Deduplicate \/ DeduplicateAgain

SpecAgain == InitDedup /\ [][NextAgain]_vars

\* C29: deduplicate is idempotent on its own output: the second call returns
\* the list it was given, the same articles in the same order with the same
\* is_primary and related_event_id.
C29_DedupIdempotent ==
    pc = "again" => unique_articles = batch

\* a second call on a list of a primary article, a duplicate of it that was
\* kept for its long summary, and another primary article of the same
\* published_at as one of them
C29_Witness ==
    /\ pc = "again"
    /\ Len(batch) = 3
    /\ \E i, j, k \in 1..Len(batch) :
            /\ i < j
            /\ batch[i].is_primary
            /\ ~batch[j].is_primary
            /\ batch[j].related_event_id = batch[i].id
            /\ k \notin {i, j}
            /\ batch[k].is_primary
            /\ batch[k].published_at \in {batch[i].published_at, batch[j].published_at}
    /\ Len(unique_articles) = 3

(***************************************************************************)
(* deduplicate over a batch of three articles with short and long          *)
(* summaries.                                                              *)
(***************************************************************************)
ShortSummary == SummaryCutoff - 1
LongSummary == SummaryCutoff + 200

TripleChoices == TitlePairs \X PublishTimes \X {ShortSummary, LongSummary}

InitTriple ==
    /\ \E a, b, c \in TripleChoices :
            batch = <<Article(Ids[1], a[1][1], a[1][2], a[2], a[3]),
                      Article(Ids[2], b[1][1], b[1][2], b[2], b[3]),
                      Article(Ids[3], c[1][1], c[1][2], c[2], c[3])>>
    /\ seed \in Seeds
    /\ dedup_threshold \in DedupThresholds
    /\ articles = batch
    /\ unique_articles = <<>>
    /\ embeddings_cache = <<>>
    /\ pc = "ready"
    /\ file = Missing
    /\ cache = EmptyDict
    /\ clock = StartClock
    /\ op = NoArgs("load")
    /\ result = Ok
    /\ raw = <<>>
    /\ task = <<>>
    /\ semaphore = SemaphoreLimit
    /\ inserts = <<>>
    /\ run = "none"

SpecTriple == InitTriple /\ [][NextDedup]_vars

\* the batch is [A, B, C] sorted by time, B and C are both more similar to A
\* than the threshold, B has a summary shorter than 1000 characters and C
\* one of 1200
ClusterWithLongDuplicate ==
    /\ Done
    /\ batch[1].published_at <= batch[2].published_at
    /\ batch[2].published_at <= batch[3].published_at
    /\ FracLess(Threshold2, Cosine2(Emb(2), Emb(1)))
    /\ FracLess(Threshold2, Cosine2(Emb(3), Emb(1)))
    /\ batch[2].summary_len < 1000
    /\ batch[3].summary_len = 1200

CaseAlphabet == {"i", "I", "s", "S", " ", "u7684"}

CaseTitles == UNION {[1..n -> CaseAlphabet] : n \in 0..MaxTitleLen}

KeywordSets == SUBSET DedupWords

KeywordsCall(title) == [name |-> "keywords", title |-> title]
SimilarityCall(kw1, kw2) == [name |-> "similarity", kw1 |-> kw1, kw2 |-> kw2]

InitHelpers ==
    /\ file = Missing
    /\ cache = EmptyDict
    /\ clock = StartClock
    /\ op = NoArgs("load")
    /\ result = Ok
    /\ seed = NoSeed
    /\ dedup_threshold = Frac(0, 1)
    /\ batch = <<>>
    /\ articles = <<>>
    /\ unique_articles = <<>>
    /\ embeddings_cache = <<>>
    /\ pc = "idle"
    /\ raw = <<>>
    /\ task = <<>>
    /\ semaphore = SemaphoreLimit
    /\ inserts = <<>>
    /\ run = "none"

ExtractKeywords(title) ==
    /\ op' = KeywordsCall(title)
    /\ result' = _extract_keywords(title)
    /\ UNCHANGED <<file, cache, clock>>
    /\ UNCHANGED dedupVars
    /\ UNCHANGED procVars

CalcSimilarity(kw1, kw2) ==
    /\ op' = SimilarityCall(kw1, kw2)
    /\ result' = _calc_similarity(kw1, kw2)
    /\ UNCHANGED <<file, cache, clock>>
    /\ UNCHANGED dedupVars
    /\ UNCHANGED procVars

NextHelpers ==
    \/ \E t \in CaseTitles \cup Titles : ExtractKeywords(t)
    \/ \E kw1, kw2 \in KeywordSets : CalcSimilarity(kw1, kw2)

SpecHelpers == InitHelpers /\ [][NextHelpers]_vars

\* C14: for all keyword sets A and B, _calc_similarity(A, B) is between 0
\* and 1 inclusive, is 1 when A = B and A is not empty, and is 0 when A or B
\* is empty.
C14_JaccardBounds ==
    op.name = "similarity" =>
        /\ result.den > 0
        /\ 0 <= result.num
        /\ result.num <= result.den
        /\ (op.kw1 = op.kw2 /\ op.kw1 # {}) => result.num = result.den
        /\ (op.kw1 = {} \/ op.kw2 = {}) => result.num = 0

\* the similarity of two different sets that share a keyword: strictly
\* between 0 and 1
C14_Witness ==
    /\ op.name = "similarity"
    /\ op.kw1 # op.kw2
    /\ op.kw1 \cap op.kw2 # {}
    /\ 0 < result.num
    /\ result.num < result.den

\* two characters that are the same letter in either case, or the same
\* character
SameLetter(c, d) ==
    \/ c = d
    \/ \E i \in 1..26 : c \in {UpperCase[i], LowerCase[i]} /\ d \in {UpperCase[i], LowerCase[i]}

\* two titles that differ only in the case of their letters
DifferOnlyInCase(t, u) ==
    /\ Len(t) = Len(u)
    /\ \A i \in 1..Len(t) : SameLetter(t[i], u[i])

\* the strings of at most one character
ShortStrings ==
    {""} \cup {UpperCase[i] : i \in 1..26} \cup {LowerCase[i] : i \in 1..26}
         \cup CJKChars \cup {" ", ",", "!", "5"}

\* C16: _extract_keywords is a function of the title that ignores letter
\* case: every title that differs from the one given only in case yields the
\* same keyword set; no returned keyword has length <= 1 or is in the
\* stop-word list.
C16_KeywordsIgnoreCase ==
    op.name = "keywords" =>
        /\ result = _extract_keywords(op.title)
        /\ \A u \in CaseTitles \cup Titles :
                DifferOnlyInCase(op.title, u) => _extract_keywords(u) = result
        /\ \A k \in result : k \notin ShortStrings /\ k \notin stop_words

\* a title with an upper-case letter and a separator that yields a keyword
\* and has another spelling that differs only in case
C16_Witness ==
    /\ op.name = "keywords"
    /\ result # {}
    /\ \E i \in 1..Len(op.title) : IsUpper(op.title[i])
    /\ \E u \in CaseTitles : u # op.title /\ DifferOnlyInCase(op.title, u)
    /\ \E i \in 1..Len(op.title) : op.title[i] = " "

(***************************************************************************)
(* NewsProcessor.translate_summarize_and_classify and process_article.     *)
(***************************************************************************)
\* the values of the Category enum
CategoryValues ==
    {"ai", "robotics", "embodied_ai", "semiconductor", "auto", "health", "economy",
     "business", "politics", "investment", "consumer_electronics", "key_people"}

\* what the LLM call yields: text that parses to a JSON object, with or
\* without the keys category and category_confidence; text that does not
\* parse (chat returns "" when the request fails); text that opens a code
\* fence and has no line break ("```json"); or something that makes the
\* method raise (message.content is None, the JSON is not an object)
\* (speech: the summary quotes a key person the article mentions; the
\* summary of text that does not parse is the article's own content)
LLMObject(has_category, category, has_confidence, confidence, speech) ==
    [kind |-> "json", has_category |-> has_category, category |-> category,
     has_confidence |-> has_confidence, confidence |-> confidence, speech |-> speech]
LLMText == [kind |-> "text", has_category |-> FALSE, category |-> "",
            has_confidence |-> FALSE, confidence |-> Frac(0, 1), speech |-> FALSE]
LLMTextQuoting == [kind |-> "text", has_category |-> FALSE, category |-> "",
                   has_confidence |-> FALSE, confidence |-> Frac(0, 1), speech |-> TRUE]
LLMFence == [kind |-> "fence", has_category |-> FALSE, category |-> "",
             has_confidence |-> FALSE, confidence |-> Frac(0, 1), speech |-> FALSE]
LLMRaises == [kind |-> "raises", has_category |-> FALSE, category |-> "",
              has_confidence |-> FALSE, confidence |-> Frac(0, 1), speech |-> FALSE]
\* the LLM has not been called
NoAnswer == [kind |-> "none", has_category |-> FALSE, category |-> "",
             has_confidence |-> FALSE, confidence |-> Frac(0, 1), speech |-> FALSE]

\* the category_confidence values an LLM writes: 0.95, 95, "high"
LLMConfidences == {Frac(95, 100), Frac(95, 1), NotANumber}

LLMOutcomes ==
    {LLMObject(TRUE, "ai", TRUE, c, FALSE) : c \in LLMConfidences}
        \cup {LLMObject(TRUE, "ai", TRUE, Frac(95, 100), TRUE),
              LLMObject(TRUE, "bogus", TRUE, Frac(95, 100), FALSE),
              LLMObject(FALSE, "", FALSE, Frac(0, 1), FALSE),
              LLMText, LLMTextQuoting, LLMFence, LLMRaises}

\* the dict translate_summarize_and_classify returns (kind "raises": it
\* raises); text that does not parse gives category business, 0.5, and
\* result.split("\n", 1)[1] raises IndexError on a fence without line break
translate_summarize_and_classify(llm) ==
    IF llm.kind = "text" THEN LLMObject(TRUE, "business", TRUE, Frac(1, 2), llm.speech)
    ELSE IF llm.kind = "fence" THEN LLMRaises
    ELSE llm

Classified(category, confidence) == [category |-> category, confidence |-> confidence]

\* if cached_category: (a tuple is true, None is not)
UsesCache(cached_category) == cached_category.kind = "hit"

\* category and confidence as process_article resolves them from the dict
\* and the cached category
Classify(r, cached_category) ==
    LET value == IF r.has_category THEN r.category ELSE "business"
    IN  IF value \in CategoryValues
        THEN Classified(value, IF r.has_confidence THEN r.confidence ELSE Frac(8, 10))
        ELSE IF UsesCache(cached_category)
             THEN IF cached_category.category \in CategoryValues
                  THEN Classified(cached_category.category, cached_category.confidence)
                  ELSE Classified("business", Frac(1, 2))
             ELSE Classified("business", Frac(1, 2))

\* get_cached_category(title, threshold=0.6)
DefaultThreshold == Frac(3, 5)
\* deduplicate(articles, threshold=0.85)
DefaultDedupThreshold == Frac(17, 20)

\* the ProcessedArticle process_article returns: cached is the category it
\* gave to add_to_cache, category the one of the article (key_people when
\* the summary quotes a key person)
Processed(c, speech) ==
    [kind |-> "processed", cached |-> c.category,
     category |-> IF speech THEN "key_people" ELSE c.category,
     confidence |-> c.confidence]
\* process_with_semaphore returned None
Failed == [kind |-> "failed", cached |-> "", category |-> "", confidence |-> Frac(0, 1)]
NotYet == [kind |-> "notyet", cached |-> "", category |-> "", confidence |-> Frac(0, 1)]

(***************************************************************************)
(* process_all as a state machine: one task per article, started in list   *)
(* order; a task runs without interruption up to its await of the LLM and  *)
(* again from the LLM's answer to its end (there is no other await on the  *)
(* way), and the answers arrive in any order.                              *)
(***************************************************************************)
RawArticle(id, title, published_at) ==
    [id |-> id, title |-> title, published_at |-> published_at]

RawBatchesOf(n) ==
    {[i \in 1..n |-> RawArticle(Ids[i], f[i], 1)] : f \in [1..n -> RawTitles]}

\* cache files an earlier run left
ProcessFiles ==
    {Missing, List(0),
     Dict(<<Entry(T_AIChip, "ai", Frac(80, 100), KeywordsOf[T_AIChip], 1)>>),
     Dict(<<Entry(T_AIChipFab, "semiconductor", Frac(80, 100), KeywordsOf[T_AIChipFab], 1)>>),
     Dict(<<Entry(T_AIChip, "bogus", Frac(80, 100), KeywordsOf[T_AIChip], 1)>>)}

Task(at, cached_category, llm, out) ==
    [pc |-> at, cached_category |-> cached_category, llm |-> llm, out |-> out]

Insert(i, title, category, confidence) ==
    [task |-> i, title |-> title, category |-> category, confidence |-> confidence]

InitProcess ==
    /\ file \in ProcessFiles
    /\ cache = _load_cache(file)
    /\ clock = StartClock
    /\ op = NoArgs("load")
    /\ result = Ok
    /\ seed = HashSeed(2, 1, 3, 1, 2, 3)
    /\ dedup_threshold = DefaultDedupThreshold
    /\ batch = <<>>
    /\ articles = <<>>
    /\ unique_articles = <<>>
    /\ embeddings_cache = <<>>
    /\ pc = "idle"
    /\ \E n \in 0..MaxTasks : raw \in RawBatchesOf(n)
    /\ task = [i \in 1..Len(raw) |-> Task("pending", None, NoAnswer, NotYet)]
    /\ semaphore = SemaphoreLimit
    /\ inserts = <<>>
    /\ run = "gathering"

\* CanAcquire admitting a task whatever the value
CanAcquireAlways(value) == TRUE

\* async with semaphore: the task goes on when the value is positive, and
\* waits otherwise
CanAcquire(value) == value > 0

\* task i takes the semaphore, looks its title up and awaits the LLM; a
\* lookup that raises ends the task
StartTask(i) ==
    /\ run = "gathering"
    /\ task[i].pc = "pending"
    /\ \A j \in 1..(i - 1) : task[j].pc # "pending"
    /\ CanAcquire(semaphore)
    /\ \E r \in {get_cached_category(cache, raw[i].title, DefaultThreshold)} :
           /\ result' = r
           /\ IF r = Raised
              THEN /\ task' = [task EXCEPT ![i] = Task("done", None, NoAnswer, Failed)]
                   /\ UNCHANGED semaphore
              ELSE /\ task' = [task EXCEPT ![i] = Task("llm", r, NoAnswer, NotYet)]
                   /\ semaphore' = semaphore - 1
    /\ op' = Call("get", raw[i].title, DefaultThreshold, "", Frac(0, 1))
    /\ UNCHANGED <<file, cache, clock>>
    /\ UNCHANGED dedupVars
    /\ UNCHANGED <<raw, inserts, run>>

\* the LLM answers task i: the task classifies, inserts into the cache,
\* returns its article and releases the semaphore; an exception on the way
\* makes it return None
FinishTask(i, llm) ==
    /\ run = "gathering"
    /\ task[i].pc = "llm"
    /\ semaphore' = semaphore + 1
    /\ \E r \in {translate_summarize_and_classify(llm)} :
       IF r.kind = "raises"
       THEN /\ task' = [task EXCEPT ![i] = Task("done", task[i].cached_category, llm, Failed)]
            /\ UNCHANGED <<file, cache, clock, op, result, inserts>>
       ELSE \E c \in {Classify(r, task[i].cached_category)} :
            \E a \in {add_to_cache(cache, file, raw[i].title, c.category, c.confidence, clock)} :
               /\ cache' = a.cache
               /\ file' = a.file
               /\ result' = a.result
               /\ clock' = clock + 1
               /\ op' = Call("add", raw[i].title, Frac(0, 1), c.category, c.confidence)
               /\ inserts' = Append(inserts, Insert(i, raw[i].title, c.category, c.confidence))
               /\ task' = [task EXCEPT ![i] =
                              Task("done", task[i].cached_category, llm,
                                   IF a.result = Raised THEN Failed
                                   ELSE Processed(c, r.speech))]
    /\ UNCHANGED dedupVars
    /\ UNCHANGED <<raw, run>>

\* ProcessedArticles without the filter: an article for every result
AllResults ==
    [i \in 1..Len(raw) |->
        Article(raw[i].id, raw[i].title, raw[i].title, raw[i].published_at, SummaryCutoff - 1)]

\* processed = [r for r in results if r is not None], as deduplicate sees
\* them: title_zh is the title, the summary is short
ProcessedArticles ==
    LET ok == {i \in 1..Len(raw) : task[i].out.kind = "processed"}
        RECURSIVE Collect(_)
        Collect(i) ==
            IF i > Len(raw) THEN <<>>
            ELSE IF i \in ok
                 THEN <<Article(raw[i].id, raw[i].title, raw[i].title,
                                raw[i].published_at, SummaryCutoff - 1)>> \o Collect(i + 1)
                 ELSE Collect(i + 1)
    IN  Collect(1)

\* gather returns when every task is done; process_all saves the cache and
\* deduplicates the processed articles
Gather ==
    /\ run = "gathering"
    /\ \A i \in 1..Len(raw) : task[i].pc = "done"
    /\ file' = _save_cache(cache)
    /\ op' = NoArgs("save")
    /\ result' = Ok
    /\ \E processed \in {ProcessedArticles} :
       \E r \in {deduplicate(seed, embeddings_cache, processed, DefaultDedupThreshold)} :
           /\ batch' = processed
           /\ articles' = r.articles
           /\ unique_articles' = r.unique
           /\ embeddings_cache' = r.cache
    /\ pc' = "done"
    /\ run' = "finished"
    /\ UNCHANGED <<cache, clock, seed, dedup_threshold>>
    /\ UNCHANGED <<raw, task, semaphore, inserts>>

NextProcess ==
    \/ \E i \in 1..Len(raw) : StartTask(i)
    \/ \E i \in 1..Len(raw), llm \in LLMOutcomes : FinishTask(i, llm)
    \/ Gather

SpecProcess == InitProcess /\ [][NextProcess]_vars

(***************************************************************************)
(* Properties of process_all.                                              *)
(***************************************************************************)
\* the last insert made for a title
LastInsert(title) ==
    inserts[CHOOSE k \in 1..Len(inserts) :
                /\ inserts[k].title = title
                /\ \A j \in (k + 1)..Len(inserts) : inserts[j].title # title]

\* C18: in every interleaving of the tasks of process_all (each lookup and
\* each insert is one uninterrupted step of the event loop), no insert is
\* lost: the cache holds, for every title inserted with at least 2
\* keywords, the category and confidence of the last insert for it; and
\* when all tasks have finished it holds an entry for every processed title
\* of at least 2 keywords.
C18_NoInsertLost ==
    /\ \A k \in 1..Len(inserts) :
            Cardinality(KeywordsOf[inserts[k].title]) >= 2 =>
                /\ cache.kind = "dict"
                /\ \E e \in 1..Len(cache.items) :
                        /\ cache.items[e].title = inserts[k].title
                        /\ cache.items[e].category = LastInsert(inserts[k].title).category
                        /\ cache.items[e].confidence = LastInsert(inserts[k].title).confidence
    /\ (\A i \in 1..Len(raw) : task[i].pc = "done") =>
            \A i \in 1..Len(raw) :
                (task[i].out.kind = "processed" /\ Cardinality(KeywordsOf[raw[i].title]) >= 2) =>
                    /\ cache.kind = "dict"
                    /\ \E e \in 1..Len(cache.items) : cache.items[e].title = raw[i].title

\* two tasks with different titles that both awaited the LLM at once and
\* finished in the reverse of the order they started in
C18_Witness ==
    /\ run = "finished"
    /\ Len(inserts) >= 2
    /\ inserts[1].task > inserts[2].task
    /\ inserts[1].title # inserts[2].title
    /\ Cardinality(KeywordsOf[inserts[1].title]) >= 2
    /\ Cardinality(KeywordsOf[inserts[2].title]) >= 2
    /\ \A i \in 1..Len(raw) : task[i].out.kind = "processed"

\* the LLM call of a finished task produced no valid category label: the
\* text did not parse, or the object has no category or one that is not a
\* Category value
NoValidLabel(llm) ==
    \/ llm.kind = "text"
    \/ llm.kind = "json" /\ ~llm.has_category
    \/ llm.kind = "json" /\ llm.has_category /\ llm.category \notin CategoryValues

\* the lookup made for the task's title matched an entry of a valid category
UsableMatch(t) ==
    /\ t.cached_category.kind = "hit"
    /\ t.cached_category.category \in CategoryValues

\* C19: whenever the LLM call of an article produced no valid category
\* label and the lookup made for its title matched an entry of a valid
\* category, process_article assigns the cached category with the lookup's
\* confidence; it assigns the default business / 0.5 only when there is no
\* usable match.
C19_FallbackUsesCache ==
    \A i \in 1..Len(raw) :
        (task[i].out.kind = "processed" /\ NoValidLabel(task[i].llm)) =>
            IF UsableMatch(task[i])
            THEN /\ task[i].out.cached = task[i].cached_category.category
                 /\ task[i].out.confidence = task[i].cached_category.confidence
            ELSE /\ task[i].out.cached = "business"
                 /\ task[i].out.confidence = Frac(1, 2)

\* C20: every cache entry that process_article inserted has a confidence
\* that is a number in [0, 1].
C20_ConfidenceInUnitInterval ==
    cache.kind = "dict" =>
        \A e \in 1..Len(cache.items) :
            (\E k \in 1..Len(inserts) : inserts[k].title = cache.items[e].title) =>
                /\ cache.items[e].confidence # NotANumber
                /\ 0 <= cache.items[e].confidence.num
                /\ cache.items[e].confidence.num <= cache.items[e].confidence.den

\* the tasks that returned an article, and those that returned None
Succeeded == {i \in 1..Len(raw) : task[i].out.kind = "processed"}
Fails(i) == task[i].out.kind # "failed" /\ task'[i].out.kind = "failed"

\* the place in raw of the article with this id
PlaceInRaw(id) == CHOOSE i \in 1..Len(raw) : raw[i].id = id

\* deduplicate has run: only when every task has finished and the cache is
\* saved, on the articles of exactly the tasks that succeeded, in list order
DedupAfterAllTasks ==
    /\ (pc = "done") = (run = "finished")
    /\ pc = "done" =>
          /\ \A i \in 1..Len(raw) : task[i].pc = "done"
          /\ file = cache
          /\ {batch[p].id : p \in 1..Len(batch)} = {raw[i].id : i \in Succeeded}
          /\ Len(batch) = Cardinality(Succeeded)
          /\ \A p, q \in 1..Len(batch) :
                p < q => PlaceInRaw(batch[p].id) < PlaceInRaw(batch[q].id)
          /\ \A p \in 1..Len(batch) : batch[p].title_original = raw[PlaceInRaw(batch[p].id)].title
          /\ \A p \in 1..Len(unique_articles) :
                \E q \in 1..Len(batch) : batch[q].id = unique_articles[p].id

C26_DefaultOnLLMFailure ==
    \A i \in 1..Len(raw) :
        (task[i].pc = "done" /\ task[i].llm.kind \in {"text", "fence"}) =>
            /\ task[i].out.kind = "processed"
            /\ task[i].out.category = "business"
            /\ task[i].out.confidence = Frac(1, 2)
            /\ \E k \in 1..Len(inserts) :
                    inserts[k] = Insert(i, raw[i].title, "business", Frac(1, 2))
            /\ LastInsert(raw[i].title).task = i =>
                    /\ get_cached_category(cache, raw[i].title, DefaultThreshold).kind = "hit"
                    /\ get_cached_category(cache, raw[i].title, DefaultThreshold).category = "business"
                    /\ FracEq(get_cached_category(cache, raw[i].title, DefaultThreshold).confidence,
                              Frac(1, 2))

(***************************************************************************)
(* process_all over a list longer than the semaphore admits at once.  The  *)
(* event loop runs a task that can run, and an LLM call returns or raises  *)
(* (LLMClient.chat catches every exception of the request): a task that    *)
(* can start does start, and a task that awaits the LLM gets its answer.   *)
(***************************************************************************)
InitQueued ==
    /\ file = Missing
    /\ cache = _load_cache(file)
    /\ clock = StartClock
    /\ op = NoArgs("load")
    /\ result = Ok
    /\ seed = HashSeed(2, 1, 3, 1, 2, 3)
    /\ dedup_threshold = DefaultDedupThreshold
    /\ batch = <<>>
    /\ articles = <<>>
    /\ unique_articles = <<>>
    /\ embeddings_cache = <<>>
    /\ pc = "idle"
    /\ raw = [i \in 1..MaxQueued |-> RawArticle(Ids[i], T_AI, 1)]
    /\ task = [i \in 1..Len(raw) |-> Task("pending", None, NoAnswer, NotYet)]
    /\ semaphore = SemaphoreLimit
    /\ inserts = <<>>
    /\ run = "gathering"

\* an answer with a valid label, and a call that makes the task raise
QueuedOutcomes == {LLMObject(TRUE, "ai", TRUE, Frac(95, 100), FALSE), LLMRaises}

NextQueued ==
    \/ \E i \in 1..Len(raw) : StartTask(i)
    \/ \E i \in 1..Len(raw), llm \in QueuedOutcomes : FinishTask(i, llm)
    \/ Gather

SpecQueued ==
    /\ InitQueued
    /\ [][NextQueued]_vars
    /\ WF_vars(\E i \in 1..Len(raw) : StartTask(i))
    /\ WF_vars(\E i \in 1..Len(raw), llm \in QueuedOutcomes : FinishTask(i, llm))

\* the tasks inside process_article
InProgress == {i \in 1..Len(raw) : task[i].pc = "llm"}

\* every article has its result: a processed article, or None for a failure
AllSettled ==
    \A i \in 1..Len(raw) :
        task[i].pc = "done" /\ task[i].out.kind \in {"processed", "failed"}

\* C25: in every interleaving of the tasks of process_all at most 5
\* process_article calls are in progress at any time, and every submitted
\* article eventually yields a processed article or a failure: no task
\* waits on the semaphore forever.
C25_AtMostFiveAndAllSettle ==
    /\ [](Cardinality(InProgress) <= 5)
    /\ <>AllSettled

\* the sixth task, which had to wait for the semaphore, is inside
\* process_article with four others after one of the first five finished
C25_Witness ==
    /\ Cardinality(InProgress) = 5
    /\ task[SemaphoreLimit + 1].pc = "llm"
    /\ \E i \in 1..SemaphoreLimit : task[i].pc = "done"

====
